---- MODULE Spec2Model ----
(***************************************************************************)
(* blahtexwrapper (Source/BlahtexCore/blahtexcxx.hpp): the value-copied    *)
(* error envelopes Exception and StandardException, the tagged unions      *)
(* AnyException and Result<T>, and the facade Interface whose four methods *)
(* each wrap one call of the blahtex engine in a try block with two catch  *)
(* clauses.                                                                *)
(*                                                                         *)
(* The engine (blahtex::Interface, Interface.h) is not part of the source  *)
(* at hand.  It is modelled from the specification's contract: an input-   *)
(* processing operation and three read-only extraction operations, each    *)
(* returning or raising.  What it answers is not known, so every answer is *)
(* a nondeterministic choice, fixed per extraction operation until the     *)
(* next ProcessInput (read-only operations on an unchanged state).         *)
(***************************************************************************)
EXTENDS Integers, Sequences, FiniteSets, TLC

\* Bounds of the model.
MaxArgs == 2
MaxQueries == 3

\* ------------------------------------------------------------------ data

\* The arguments an engine exception may carry: the prefixes of ArgPool up
\* to MaxArgs elements (distinct elements, so order and count are visible).
ArgPool == <<"a", "b", "c", "d">>
ArgSeqs == {SubSeq(ArgPool, 1, k) : k \in 0..MaxArgs}
Codes == {"UnrecognisedCommand"}
Messages == {"logic_error"}
Values == {"", "<math/>"}
Inputs == {"x^2", "\\unknownmacro"}

\* T of Result<T>: std::monostate or std::wstring.
Monostate == [t |-> "monostate", s |-> ""]
WString(s) == [t |-> "wstring", s |-> s]

\* Objects a call may raise.
BlahtexException(c, a) ==
    [type |-> "blahtex::Exception", code |-> c, args |-> a, what |-> ""]
StdException(m) ==
    [type |-> "std::exception", code |-> "", args |-> <<>>, what |-> m]
ForeignObject == [type |-> "other", code |-> "", args |-> <<>>, what |-> ""]
NoThrown == [type |-> "none", code |-> "", args |-> <<>>, what |-> ""]
BadAlloc == StdException("std::bad_alloc")
BadVariantAccess == StdException("std::bad_variant_access")

\* ------------------------------------------------- the error envelopes

\* Exception(const blahtex::Exception&): code(GetCode()), args(GetArgs()).
\* (Faulty variant: the arguments are not copied.)
Exception_DropArgs(e) == [code |-> e.code, args |-> <<>>]
Exception(e) == [code |-> e.code, args |-> e.args]
GetCode(x) == x.code
GetArgs(x) == x.args

\* StandardException(const std::exception&): message(e.what()).
StandardException(e) == [message |-> e.what]
GetMessage(x) == x.message

NoException == [code |-> "", args |-> <<>>]
NoStandardException == [message |-> ""]

\* ------------------------------------------------------- AnyException

\* std::variant<Exception, StandardException> error.
AnyExceptionOfException(x) ==
    [alt |-> "Exception", ex |-> x, st |-> NoStandardException]
AnyExceptionOfStandardException(x) ==
    [alt |-> "StandardException", ex |-> NoException, st |-> x]
NoAnyException == [alt |-> "none", ex |-> NoException, st |-> NoStandardException]

isBlahtexException(a) == a.alt = "Exception"
\* (Faulty variant: both discriminants test the same alternative.)
isStandardException_Same(a) == a.alt = "Exception"
isStandardException(a) == a.alt = "StandardException"

\* What a call of an accessor does: it returns a value or raises.
Returned(v) == [kind |-> "returned", v |-> v, thrown |-> NoThrown]
Raised(e) == [kind |-> "raised", v |-> FALSE, thrown |-> e]

\* std::get<Exception>(error) / std::get<StandardException>(error): raises
\* std::bad_variant_access when the alternative is not the active one.
blahtexException(a) ==
    IF a.alt = "Exception" THEN Returned(a.ex) ELSE Raised(BadVariantAccess)
standardException(a) ==
    IF a.alt = "StandardException" THEN Returned(a.st) ELSE Raised(BadVariantAccess)

\* ------------------------------------------------------------ Result<T>

\* std::variant<T, AnyException> storage.
ResultOfValue(v) == [alt |-> "T", val |-> v, err |-> NoAnyException]
ResultOfException(x) ==
    [alt |-> "AnyException", val |-> Monostate, err |-> AnyExceptionOfException(x)]
ResultOfStandardException(x) ==
    [alt |-> "AnyException", val |-> Monostate,
     err |-> AnyExceptionOfStandardException(x)]
NoResult == [alt |-> "none", val |-> Monostate, err |-> NoAnyException]

isOK(r) == r.alt = "T"
isException(r) == r.alt = "AnyException"

\* std::get<T>(storage) / std::get<AnyException>(storage).
\* (Faulty variant: a default value instead of the failure.)
value_Default(r) == IF r.alt = "T" THEN Returned(r.val) ELSE Returned(WString(""))
value(r) == IF r.alt = "T" THEN Returned(r.val) ELSE Raised(BadVariantAccess)
exception(r) ==
    IF r.alt = "AnyException" THEN Returned(r.err) ELSE Raised(BadVariantAccess)

\* The accessors are const: the object is as it was after any of them.
AfterAccess(r) == r

\* ------------------------------------------------------------ the engine

ExtractOps == {"GetMathml", "GetPurifiedTex", "GetPurifiedTexOnly"}
Ops == ExtractOps \cup {"ProcessInput"}

\* What an engine call does: it returns (a wstring, or nothing) or raises.
EngineReturn(v) == [kind |-> "return", val |-> v, exc |-> NoThrown]
EngineThrow(e) == [kind |-> "throw", val |-> Monostate, exc |-> e]
Undetermined == [kind |-> "undetermined", val |-> Monostate, exc |-> NoThrown]
NoResponse == [kind |-> "none", val |-> Monostate, exc |-> NoThrown]

StructuredFailures == {BlahtexException(c, a) : c \in Codes, a \in ArgSeqs}
RuntimeFailures == {StdException(m) : m \in Messages}
\* Anything C++ lets a callee raise: the two kinds above, or an object of a
\* type that derives from neither.
EngineThrowables == StructuredFailures \cup RuntimeFailures \cup {ForeignObject}

ExtractResponses ==
    {EngineReturn(WString(v)) : v \in Values} \cup {EngineThrow(e) : e \in EngineThrowables}
ProcessResponses == {EngineReturn(Monostate)} \cup {EngineThrow(e) : e \in EngineThrowables}
\* Before any input was processed the engine is expected to report an error.
FreshResponses == {EngineThrow(e) : e \in StructuredFailures \cup RuntimeFailures}

\* The engine's state: whether it is as constructed, and its answer to each
\* extraction operation once that answer has been observed.
FreshEngine == [fresh |-> TRUE, resp |-> [o \in ExtractOps |-> Undetermined]]

EngineAnswers(e, op) ==
    IF e.resp[op].kind # "undetermined" THEN {e.resp[op]}
    ELSE IF e.fresh THEN FreshResponses ELSE ExtractResponses

\* Extraction is read-only: the state is unchanged, and so is the answer.
\* (Faulty variant: the answer may differ from call to call.)
EngineAfterExtract_Forgets(e, op, r) == e
EngineAfterExtract(e, op, r) == [e EXCEPT !.resp[op] = r]

\* ProcessInput replaces the parsed state, whether it returns or raises.
EngineAfterProcess(e, input, displayStyle) ==
    [fresh |-> FALSE, resp |-> [o \in ExtractOps |-> Undetermined]]

\* ------------------------------------------------------------ the facade

VARIABLES
    eng,          \* blahtex::Interface interface
    pc,           \* where the running facade method is
    cur,          \* the running (or last) invocation: method and arguments
    engRes,       \* what the engine call of this invocation did
    inflight,     \* the exception object being handled or propagating
    ret,          \* the Result the caller last received
    retOrig,      \* the engine response that Result was built from
    engineCalls,  \* engine calls made by this invocation
    outcomes,     \* Results returned by this invocation
    escaped,      \* the object that left this invocation as an exception
    errSeen,      \* some invocation has returned an Err Result
    processed,    \* ProcessInput has been called on this facade
    lastOp,       \* method of the invocation completed before this one
    lastReturned, \* whether that invocation returned a Result
    prevRet,      \* the Result of the preceding call of the same method
    ctor,         \* constructor that built the Result under inspection
    obs,          \* the last accessor call and what it did
    nq            \* accessor calls made

vars == <<eng, pc, cur, engRes, inflight, ret, retOrig, engineCalls, outcomes,
          escaped, errSeen, processed, lastOp, lastReturned, prevRet, ctor,
          obs, nq>>

NoCall == [op |-> "none", input |-> "", displayStyle |-> FALSE, afterErr |-> FALSE]
NoObs == [acc |-> "none", out |-> Returned(FALSE), match |-> TRUE]

\* Interface(): interface(blahtex::Interface()).
Init ==
    /\ eng = FreshEngine
    /\ pc = "idle"
    /\ cur = NoCall
    /\ engRes = NoResponse
    /\ inflight = NoThrown
    /\ ret = NoResult
    /\ retOrig = NoResponse
    /\ engineCalls = 0
    /\ outcomes = 0
    /\ escaped = NoThrown
    /\ errSeen = FALSE
    /\ processed = FALSE
    /\ lastOp = "none"
    /\ lastReturned = FALSE
    /\ prevRet = NoResult
    /\ ctor = "none"
    /\ obs = NoObs
    /\ nq = 0

inspection == <<ctor, obs, nq>>

\* A facade method is entered: nothing of it has run yet.
Enter(op, input, displayStyle) ==
    /\ pc = "idle"
    /\ pc' = "try"
    /\ cur' = [op |-> op, input |-> input, displayStyle |-> displayStyle,
               afterErr |-> errSeen]
    /\ engRes' = NoResponse
    /\ engineCalls' = 0
    /\ outcomes' = 0
    /\ escaped' = NoThrown
    /\ processed' = (processed \/ op = "ProcessInput")
    /\ lastOp' = IF cur.op = "none" THEN "none" ELSE cur.op
    /\ lastReturned' = (outcomes > 0)
    /\ prevRet' = NoResult
    /\ UNCHANGED <<eng, inflight, ret, retOrig, errSeen, inspection>>

ProcessInput(input, displayStyle) == Enter("ProcessInput", input, displayStyle)
GetMathml == Enter("GetMathml", "", FALSE)
GetPurifiedTex == Enter("GetPurifiedTex", "", FALSE)
GetPurifiedTexOnly == Enter("GetPurifiedTexOnly", "", FALSE)

\* The engine method each facade method calls.
EngineMethod(op) == op

\* The return statement of the try block.
TryReturn(op, r) ==
    IF op = "ProcessInput" THEN ResultOfValue(Monostate) ELSE ResultOfValue(r.val)

\* The catch clause, if any, that takes a raised object:
\* catch (const blahtex::Exception&), then catch (const std::exception&).
CatchClause(e) ==
    IF e.type = "blahtex::Exception" THEN "catch_blahtex"
    ELSE IF e.type = "std::exception" THEN "catch_std"
    ELSE "propagate"

\* The return statements of the two catch clauses.
HandlerBlahtex(e) == ResultOfException(Exception(e))
HandlerStd(e) == ResultOfStandardException(StandardException(e))

\* The method returns Result o, built from engine response r, to its caller.
ReturnResult(o, r) ==
    /\ pc' = "idle"
    /\ ret' = o
    /\ retOrig' = r
    /\ outcomes' = outcomes + 1
    /\ errSeen' = (errSeen \/ isException(o))
    /\ prevRet' = IF lastReturned /\ lastOp = cur.op THEN ret ELSE NoResult
    /\ inflight' = NoThrown

\* The engine call raised e: control goes to the matching catch clause, or
\* the object propagates out of the method.
Raise(e) ==
    /\ pc' = CatchClause(e)
    /\ inflight' = e
    /\ UNCHANGED <<ret, retOrig, outcomes, errSeen, prevRet>>

\* try { interface.ProcessInput(input, displayStyle); return Result(monostate()); }
TryProcessInput ==
    /\ pc = "try"
    /\ cur.op = "ProcessInput"
    /\ \E r \in ProcessResponses :
          /\ engRes' = r
          /\ eng' = EngineAfterProcess(eng, cur.input, cur.displayStyle)
          /\ IF r.kind = "return" THEN ReturnResult(TryReturn(cur.op, r), r)
                                  ELSE Raise(r.exc)
    /\ engineCalls' = engineCalls + 1
    /\ UNCHANGED <<cur, escaped, processed, lastOp, lastReturned, inspection>>

\* try { return Result<std::wstring>(interface.GetX()); }
TryExtract ==
    /\ pc = "try"
    /\ cur.op \in ExtractOps
    /\ \E r \in EngineAnswers(eng, EngineMethod(cur.op)) :
          /\ engRes' = r
          /\ eng' = EngineAfterExtract(eng, EngineMethod(cur.op), r)
          /\ IF r.kind = "return" THEN ReturnResult(TryReturn(cur.op, r), r)
                                  ELSE Raise(r.exc)
    /\ engineCalls' = engineCalls + 1
    /\ UNCHANGED <<cur, escaped, processed, lastOp, lastReturned, inspection>>

\* A catch clause builds the envelope and returns it; building it copies
\* strings, and a copy that cannot allocate raises std::bad_alloc from
\* inside the handler, where no clause of this try block takes it.
Catch(clause, o) ==
    /\ pc = clause
    /\ \E copyOk \in BOOLEAN :
          IF copyOk
          THEN /\ ReturnResult(o, engRes)
               /\ engRes' = engRes
          ELSE /\ pc' = "propagate"
               /\ inflight' = BadAlloc
               /\ UNCHANGED <<engRes, ret, retOrig, outcomes, errSeen, prevRet>>
    /\ UNCHANGED <<eng, cur, engineCalls, escaped, processed, lastOp,
                   lastReturned, inspection>>

CatchBlahtex == Catch("catch_blahtex", HandlerBlahtex(inflight))
CatchStd == Catch("catch_std", HandlerStd(inflight))

\* No clause took the object: it leaves the method as an exception.
Propagate ==
    /\ pc = "propagate"
    /\ pc' = "idle"
    /\ escaped' = inflight
    /\ inflight' = NoThrown
    /\ UNCHANGED <<eng, cur, engRes, ret, retOrig, engineCalls, outcomes,
                   errSeen, processed, lastOp, lastReturned, prevRet, inspection>>

Next ==
    \/ \E input \in Inputs, displayStyle \in BOOLEAN : ProcessInput(input, displayStyle)
    \/ GetMathml
    \/ GetPurifiedTex
    \/ GetPurifiedTexOnly
    \/ TryProcessInput
    \/ TryExtract
    \/ CatchBlahtex
    \/ CatchStd
    \/ Propagate

Spec == Init /\ [][Next]_vars

\* ------------------------------------------- inspecting a Result<T>

\* The Results the three constructors build: Result(T), Result(Exception),
\* Result(StandardException).
Constructed(c) ==
    IF c = "value"
    THEN {ResultOfValue(Monostate)} \cup {ResultOfValue(WString(v)) : v \in Values}
    ELSE IF c = "Exception"
    THEN {ResultOfException(Exception(e)) : e \in StructuredFailures}
    ELSE {ResultOfStandardException(StandardException(e)) : e \in RuntimeFailures}

InitInspect ==
    /\ eng = FreshEngine
    /\ pc = "idle"
    /\ cur = NoCall
    /\ engRes = NoResponse
    /\ inflight = NoThrown
    /\ ctor \in {"value", "Exception", "StandardException"}
    /\ ret \in Constructed(ctor)
    /\ retOrig = NoResponse
    /\ engineCalls = 0
    /\ outcomes = 0
    /\ escaped = NoThrown
    /\ errSeen = FALSE
    /\ processed = FALSE
    /\ lastOp = "none"
    /\ lastReturned = FALSE
    /\ prevRet = NoResult
    /\ obs = NoObs
    /\ nq = 0

\* An accessor that returns by value copies what it returns; copying a
\* string or a vector may fail to allocate and raise std::bad_alloc.
Copying(out, allocates, copyOk) ==
    IF out.kind = "returned" /\ allocates /\ ~copyOk THEN Raised(BadAlloc) ELSE out

\* The caller calls accessor acc; match tells whether the alternative acc
\* asks for is the one the object was constructed with.
Access(acc, out, match) ==
    /\ ctor # "none"
    /\ nq < MaxQueries
    /\ obs' = [acc |-> acc, out |-> out, match |-> match]
    /\ nq' = nq + 1
    /\ ret' = AfterAccess(ret)
    /\ UNCHANGED <<eng, pc, cur, engRes, inflight, retOrig, engineCalls, outcomes,
                   escaped, errSeen, processed, lastOp, lastReturned, prevRet, ctor>>

Call_isOK == Access("isOK", Returned(isOK(ret)), TRUE)
Call_isException == Access("isException", Returned(isException(ret)), TRUE)
Call_value ==
    \E copyOk \in BOOLEAN :
        Access("value", Copying(value(ret), ret.val.t = "wstring", copyOk),
               ctor = "value")
Call_exception ==
    \E copyOk \in BOOLEAN :
        Access("exception", Copying(exception(ret), TRUE, copyOk), ctor # "value")

\* The AnyException the caller got from exception().
Call_isBlahtexException ==
    /\ isException(ret)
    /\ Access("isBlahtexException", Returned(isBlahtexException(exception(ret).v)), TRUE)
Call_isStandardException ==
    /\ isException(ret)
    /\ Access("isStandardException", Returned(isStandardException(exception(ret).v)), TRUE)
Call_blahtexException ==
    /\ isException(ret)
    /\ \E copyOk \in BOOLEAN :
          Access("blahtexException",
                 Copying(blahtexException(exception(ret).v), TRUE, copyOk),
                 ctor = "Exception")
Call_standardException ==
    /\ isException(ret)
    /\ \E copyOk \in BOOLEAN :
          Access("standardException",
                 Copying(standardException(exception(ret).v), TRUE, copyOk),
                 ctor = "StandardException")

NextInspect ==
    \/ Call_isOK
    \/ Call_isException
    \/ Call_value
    \/ Call_exception
    \/ Call_isBlahtexException
    \/ Call_isStandardException
    \/ Call_blahtexException
    \/ Call_standardException

SpecInspect == InitInspect /\ [][NextInspect]_vars

\* ---------------------------------------------------------- properties

\* An invocation of a facade method has run to its end.
Completed == pc = "idle" /\ cur.op # "none"
Extractors == {"value", "exception", "blahtexException", "standardException"}

\* C1: whatever is raised while a facade method runs, the method returns a
\* Result and nothing leaves it as an exception.
C1_NoFailureEscapes == escaped = NoThrown

\* C2: the Result of an invocation follows from what its engine call did:
\* a return gives Ok with the returned value (the unit for ProcessInput), a
\* structured exception gives Err with the Exception alternative, any other
\* failure gives Err with the StandardException alternative holding its
\* description.
C2_OutcomeDetermined ==
    Completed =>
        /\ outcomes = 1
        /\ engRes.kind = "return" =>
              ret = ResultOfValue(IF cur.op = "ProcessInput" THEN Monostate
                                                             ELSE engRes.val)
        /\ (engRes.kind = "throw" /\ engRes.exc.type = "blahtex::Exception") =>
              /\ isException(ret)
              /\ isBlahtexException(ret.err) /\ ~isStandardException(ret.err)
        /\ (engRes.kind = "throw" /\ engRes.exc.type # "blahtex::Exception") =>
              /\ isException(ret)
              /\ isStandardException(ret.err) /\ ~isBlahtexException(ret.err)
              /\ GetMessage(ret.err.st) = engRes.exc.what

\* C3: an extraction accessor called for the alternative that is not the
\* active one never hands a value back: the call fails, raising
\* std::bad_variant_access.
C3_MismatchFailsFast ==
    (obs.acc \in Extractors /\ ~obs.match) =>
        /\ obs.out.kind = "raised"
        /\ obs.out.thrown = BadVariantAccess
C3_Witness ==
    /\ obs.acc = "blahtexException"
    /\ ~obs.match
    /\ ctor = "StandardException"
    /\ obs.out.kind = "raised"

\* C4: no operation of Result<T> (isOK, isException, value, exception)
\* ever raises, whatever the active alternative.
C4_ResultNeverRaises ==
    obs.acc \in {"isOK", "isException", "value", "exception"} =>
        obs.out.kind = "returned"

\* C5: a Result has exactly one of isOK/isException true, its AnyException
\* exactly one of isBlahtexException/isStandardException, each as the
\* constructor fixed it, and every query made since has answered the same.
C5_OneVariantStable ==
    ctor # "none" =>
        /\ isOK(ret) # isException(ret)
        /\ isOK(ret) = (ctor = "value")
        /\ isException(ret) =>
              /\ isBlahtexException(ret.err) # isStandardException(ret.err)
              /\ isBlahtexException(ret.err) = (ctor = "Exception")
        /\ obs.acc = "isOK" => obs.out.v = (ctor = "value")
        /\ obs.acc = "isException" => obs.out.v = (ctor # "value")
        /\ obs.acc = "isBlahtexException" => obs.out.v = (ctor = "Exception")
        /\ obs.acc = "isStandardException" => obs.out.v = (ctor = "StandardException")
C5_Witness ==
    /\ nq >= 2
    /\ obs.acc = "isStandardException"
    /\ obs.out.v = TRUE

\* C6: the Exception held by an Err Result carries the code and the
\* arguments of the engine exception it was built from, same length, same
\* order, and keeps them once that exception object is gone and the engine
\* has been called again.
C6_DomainErrorPreserved ==
    /\ (isException(ret) /\ isBlahtexException(exception(ret).v)) =>
          LET d == blahtexException(exception(ret).v).v
              e == retOrig.exc
          IN  /\ e.type = "blahtex::Exception"
              /\ GetCode(d) = e.code
              /\ Len(GetArgs(d)) = Len(e.args)
              /\ \A i \in 1..Len(e.args) : GetArgs(d)[i] = e.args[i]
    /\ (Completed /\ outcomes = 1 /\ engRes.exc.type = "blahtex::Exception") =>
          /\ retOrig = engRes
          /\ isException(ret) /\ isBlahtexException(exception(ret).v)
C6_Witness ==
    /\ isException(ret) /\ isBlahtexException(exception(ret).v)
    /\ Len(GetArgs(blahtexException(exception(ret).v).v)) >= 2
    /\ pc = "catch_std"
    /\ inflight.type = "std::exception"
    /\ engineCalls = 1

\* C7: on a facade on which ProcessInput was never called, GetMathml
\* returns an Err Result: never Ok, and nothing escapes.
C7_FreshGetMathmlErr ==
    (Completed /\ cur.op = "GetMathml" /\ ~processed) =>
        /\ outcomes = 1
        /\ isException(ret)
        /\ escaped = NoThrown

\* C8: once some invocation has returned Err, every later invocation still
\* makes its own engine call and returns a Result.
C8_LaterCallsReturn ==
    (Completed /\ cur.afterErr) => (engineCalls = 1 /\ outcomes = 1)

C10_OneCallOneOutcome ==
    /\ engineCalls <= 1
    /\ outcomes <= 1
    /\ Completed => (engineCalls = 1 /\ outcomes = 1)

====
